---- MODULE Spec2Model ----
(***************************************************************************)
(* Context enrichment ("expanded content") of notebooks/                   *)
(* 7-ExpandedContent-Week3.ipynb: groupby_episode, create_expanded_content,*)
(* the assignment cell (flatten, azimuth check, join_expanded_content) and *)
(* the post-check cell.  Python lists are sequences; list indices are kept *)
(* 0-based inside the window arithmetic, as in the source, and shifted by  *)
(* one only where a sequence is indexed.                                   *)
(***************************************************************************)
EXTENDS Integers, Sequences, FiniteSets, TLC

VARIABLES data, window_size, num_episodes, episodes, expanded_contents,
          flattened_content, pc, err

vars == <<data, window_size, num_episodes, episodes, expanded_contents,
          flattened_content, pc, err>>

---------------------------------------------------------------------------
(* Bounds of the model *)

MaxLen == 4

MaxW == 2

MaxFlat == 3

(* Defaults of create_expanded_content's parameters *)

DefaultWindowSize == 1

DefaultNumEpisodes == 193

key_field == "video_id"

new_key == "expanded_content"

(* The values records are built from *)

VideoIds == {"v1", "v2"}

Contents == {"a", "b", "c"}

Records == [video_id : VideoIds, content : Contents]

RECURSIVE SeqsUpTo(_, _)
SeqsUpTo(S, n) ==
    IF n = 0 THEN {<<>>}
    ELSE LET shorter == SeqsUpTo(S, n - 1)
         IN  shorter \cup {Append(s, x) : s \in {t \in shorter : Len(t) = n - 1}, x \in S}

DataInputs == SeqsUpTo(Records, MaxLen)

FlatInputs == SeqsUpTo({"a", "a b"}, MaxFlat)

---------------------------------------------------------------------------
(* Python built-ins used by the source *)

max(a, b) == IF a >= b THEN a ELSE b

min(a, b) == IF a <= b THEN a ELSE b

Front(s) == SubSeq(s, 1, Len(s) - 1)

(* s[a:b] for a list s and integers a, b: negative indices count from the
   end, both are clamped to 0..len(s), an empty range gives [] *)
PySliceIndex(n, k) == IF k < 0 THEN max(0, n + k) ELSE min(n, k)

PySlice(s, a, b) ==
    LET lo == PySliceIndex(Len(s), a)
        hi == PySliceIndex(Len(s), b)
    IN  IF lo >= hi THEN <<>> ELSE SubSeq(s, lo + 1, hi)

(* [x for inner in ll for x in inner] *)
RECURSIVE Flatten(_)
Flatten(ll) == IF ll = <<>> THEN <<>> ELSE Head(ll) \o Flatten(Tail(ll))

(* sep.join(parts) *)
RECURSIVE join(_, _)
join(sep, parts) ==
    IF parts = <<>> THEN ""
    ELSE IF Len(parts) = 1 THEN parts[1]
    ELSE parts[1] \o sep \o join(sep, Tail(parts))

---------------------------------------------------------------------------
(* groupby_episode *)

keyfunc_field_name(x, kf) == kf

keyfunc(x, kf) == x[kf]

(* grouping through a dict keyed by video_id: merges non-contiguous runs *)
groupby_dict(d, kf) ==
    LET keys  == {keyfunc(d[k], kf) : k \in 1..Len(d)}
        first(v) == CHOOSE k \in 1..Len(d) :
                        /\ keyfunc(d[k], kf) = v
                        /\ \A j \in 1..(k - 1) : keyfunc(d[j], kf) # v
        ordered == SelectSeq([k \in 1..Len(d) |-> k],
                             LAMBDA k : \E v \in keys : first(v) = k)
    IN  [g \in 1..Len(ordered) |->
            SelectSeq(d, LAMBDA x : keyfunc(x, kf) = keyfunc(d[ordered[g]], kf))]

(* itertools.groupby opens a new group whenever the key differs from the key
   of the group being built, i.e. from the previous element's key *)
RECURSIVE groupby_episode(_, _)
groupby_episode(d, kf) ==
    IF d = <<>> THEN <<>>
    ELSE LET prev == groupby_episode(Front(d), kf)
             x    == d[Len(d)]
         IN  IF Len(d) > 1 /\ keyfunc(d[Len(d) - 1], kf) = keyfunc(x, kf)
             THEN [prev EXCEPT ![Len(prev)] = Append(@, x)]
             ELSE Append(prev, <<x>>)

---------------------------------------------------------------------------
(* create_expanded_content *)

episodes_assert_le(eps, n) == Len(eps) <= n

episodes_assert(eps, n) == Len(eps) = n

chunk_list_merged(eps) ==
    IF eps = <<>> THEN <<>>
    ELSE << [k \in 1..Len(Flatten(eps)) |-> Flatten(eps)[k]["content"]] >>

chunk_list(eps) ==
    [g \in 1..Len(eps) |-> [k \in 1..Len(eps[g]) |-> eps[g][k]["content"]]]

start_unclamped(i, w) == i - w

start(i, w) == max(0, i - w)

end_short(i, w) == i + w

end_wide(i, w) == i + w + 2

end(i, w) == i + w + 1

expanded_content(episode, i, w) ==
    join(" ", PySlice(episode, start(i, w), end(i, w)))

episode_container_short(episode, w) ==
    [k \in 1..(Len(episode) - 1) |-> expanded_content(episode, k - 1, w)]

episode_container(episode, w) ==
    [k \in 1..Len(episode) |-> expanded_content(episode, k - 1, w)]

build_expanded_contents(cl, w) ==
    [g \in 1..Len(cl) |-> episode_container(cl[g], w)]

CreateExpandedContent ==
    /\ pc = "start"
    /\ LET eps == groupby_episode(data, key_field)
       IN  /\ episodes' = eps
           /\ IF episodes_assert(eps, num_episodes)
              THEN /\ expanded_contents' =
                          build_expanded_contents(chunk_list(eps), window_size)
                   /\ pc' = "expanded"
                   /\ err' = err
              ELSE /\ expanded_contents' = expanded_contents
                   /\ pc' = "failed"
                   /\ err' = "AssertionError"
    /\ UNCHANGED <<data, window_size, num_episodes, flattened_content>>

---------------------------------------------------------------------------
(* The assignment cell: flatten, azimuth check, join_expanded_content *)

(* The notebook leaves the flattening to be written: flattened_content is
   the list of episodes flattened into a single list of strings *)
FlattenContent ==
    /\ pc = "expanded"
    /\ flattened_content' = Flatten(expanded_contents)
    /\ pc' = "flattened"
    /\ UNCHANGED <<data, window_size, num_episodes, episodes, expanded_contents, err>>

lengths_match_ge(flat_length, data_length) == flat_length >= data_length

lengths_match(flat_length, data_length) == flat_length = data_length

AzimuthCheck ==
    /\ pc = "flattened"
    /\ IF lengths_match(Len(flattened_content), Len(data))
       THEN pc' = "checked" /\ err' = err
       ELSE pc' = "failed" /\ err' = "AssertionError"
    /\ UNCHANGED <<data, window_size, num_episodes, episodes, expanded_contents,
                   flattened_content>>

(* The notebook leaves the body of join_expanded_content to be written (it
   holds the signature, the docstring "Updates data with an expanded_content
   key" and the final return data); the body below is the positional merge:
   d[new_key] = the string of the same position, for every record d *)
join_shifted(d, f, nk) ==
    [k \in 1..Len(d) |-> d[k] @@ (nk :> f[IF k < Len(d) THEN k + 1 ELSE 1])]

join_expanded_content(d, f, nk) ==
    [k \in 1..Len(d) |-> (nk :> f[k]) @@ d[k]]

JoinExpandedContent ==
    /\ pc = "checked"
    /\ data' = join_expanded_content(data, flattened_content, new_key)
    /\ pc' = "joined"
    /\ UNCHANGED <<window_size, num_episodes, episodes, expanded_contents,
                   flattened_content, err>>

(* post-check cell: every record carries the expanded_content field *)
PostCheck ==
    /\ pc = "joined"
    /\ IF \A k \in 1..Len(data) : "expanded_content" \in DOMAIN data[k]
       THEN pc' = "done" /\ err' = err
       ELSE pc' = "failed" /\ err' = "AssertionError"
    /\ UNCHANGED <<data, window_size, num_episodes, episodes, expanded_contents,
                   flattened_content>>

---------------------------------------------------------------------------
(* The notebook run top to bottom on a loaded dataset *)

Init ==
    /\ data \in DataInputs
    /\ window_size \in 0..MaxW
    /\ num_episodes \in 0..MaxLen
    /\ episodes = <<>>
    /\ expanded_contents = <<>>
    /\ flattened_content = <<>>
    /\ pc = "start"
    /\ err = "none"

Next ==
    \/ CreateExpandedContent
    \/ FlattenContent
    \/ AzimuthCheck
    \/ JoinExpandedContent
    \/ PostCheck

Spec == Init /\ [][Next]_vars

(* The assignment cell from its azimuth check on, for any flattened_content
   the code written above the check may have produced *)

InitCell ==
    /\ data \in DataInputs
    /\ flattened_content \in FlatInputs
    /\ window_size = DefaultWindowSize
    /\ num_episodes = DefaultNumEpisodes
    /\ episodes = <<>>
    /\ expanded_contents = <<>>
    /\ pc = "flattened"
    /\ err = "none"

NextCell ==
    \/ AzimuthCheck
    \/ JoinExpandedContent
    \/ PostCheck

SpecCell == InitCell /\ [][NextCell]_vars

---------------------------------------------------------------------------
(* Vocabulary of the properties; none of it is used by the actions *)

(* the parts written one after another with exactly one space between two *)
RECURSIVE SingleSpaced(_)
SingleSpaced(parts) ==
    IF Len(parts) = 0 THEN ""
    ELSE IF Len(parts) = 1 THEN parts[1]
    ELSE SingleSpaced(SubSeq(parts, 1, Len(parts) - 1)) \o " " \o parts[Len(parts)]

(* the groups written one after another *)
RECURSIVE ConcatGroups(_)
ConcatGroups(gs) ==
    IF Len(gs) = 0 THEN <<>>
    ELSE ConcatGroups(SubSeq(gs, 1, Len(gs) - 1)) \o gs[Len(gs)]

(* number of records in the first g groups *)
RECURSIVE PrefixLen(_, _)
PrefixLen(gs, g) == IF g = 0 THEN 0 ELSE PrefixLen(gs, g - 1) + Len(gs[g])

(* the records as they were loaded, without the field the merge adds *)
Loaded == [k \in 1..Len(data) |->
              [video_id |-> data[k].video_id, content |-> data[k].content]]

ContentsOf(recs) == [k \in 1..Len(recs) |-> recs[k].content]

(* positions j and k of the input lie in the same returned group *)
SameGroup(j, k) ==
    \E g \in 1..Len(episodes) :
        /\ PrefixLen(episodes, g - 1) < j /\ j <= PrefixLen(episodes, g)
        /\ PrefixLen(episodes, g - 1) < k /\ k <= PrefixLen(episodes, g)

(* one video_id occurs in two runs separated by another video_id *)
NonContiguous ==
    \E i, j, k \in 1..Len(data) :
        /\ i < j /\ j < k
        /\ data[i].video_id = data[k].video_id
        /\ data[i].video_id # data[j].video_id

DistinctIds == {data[k].video_id : k \in 1..Len(data)}

(* first and last position of the run of equal video_id around position j *)
RunStart(j) ==
    CHOOSE l \in 1..j :
        /\ \A k \in l..j : data[k].video_id = data[j].video_id
        /\ (l > 1 => data[l - 1].video_id # data[j].video_id)

RunEnd(j) ==
    CHOOSE h \in j..Len(data) :
        /\ \A k \in j..h : data[k].video_id = data[j].video_id
        /\ (h < Len(data) => data[h + 1].video_id # data[j].video_id)

(* groupby_episode has been run *)
Grouped == pc # "start"

(* create_expanded_content has returned its output *)
Returned == pc \in {"expanded", "flattened", "checked", "joined", "done"}

(* every content is one character, so a window of n chunks has 2n-1 of them *)
NumChunks(str) == (Len(str) + 1) \div 2

---------------------------------------------------------------------------
(* C1: at position i of a group of n chunks the expanded string is the chunks
   max(0, i-W) .. min(n-1, i+W) of that group, in order, single-spaced *)
C1_ClampedWindow ==
    Returned =>
        /\ Len(expanded_contents) = Len(episodes)
        /\ \A g \in 1..Len(episodes) :
              LET chunks == ContentsOf(episodes[g])
                  n      == Len(chunks)
              IN  /\ Len(expanded_contents[g]) = n
                  /\ \A i \in 0..(n - 1) :
                        expanded_contents[g][i + 1] =
                            SingleSpaced(SubSeq(chunks,
                                                max(0, i - window_size) + 1,
                                                min(n - 1, i + window_size) + 1))

C1_Witness ==
    /\ Returned
    /\ window_size = 1
    /\ \E g \in 1..Len(episodes) :
          /\ ContentsOf(episodes[g]) = <<"a", "b", "c", "a">>
          /\ expanded_contents[g] = <<"a b", "a b c", "b c a", "c a">>

(* C2: every expanded string is built only from records of the same video_id
   lying in one unbroken run with its own record: no bleed-over *)
C2_NoBleedOver ==
    Returned =>
        /\ Len(ConcatGroups(expanded_contents)) = Len(data)
        /\ \A j \in 1..Len(data) :
              \E lo \in 1..j, hi \in j..Len(data) :
                  /\ \A k \in lo..hi : data[k].video_id = data[j].video_id
                  /\ ConcatGroups(expanded_contents)[j] =
                        SingleSpaced(SubSeq(ContentsOf(data), lo, hi))

C2_Witness ==
    /\ Returned
    /\ window_size = 1
    /\ Len(episodes) = 2
    /\ Len(episodes[1]) = 2
    /\ Len(episodes[2]) = 2
    /\ ContentsOf(data) = <<"a", "b", "c", "a">>
    /\ expanded_contents = << <<"a b", "a b">>, <<"c a", "c a">> >>

(* C3: the groups, concatenated in order, are the input; no group is empty *)
C3_ConcatIsInput ==
    Grouped =>
        /\ ConcatGroups(episodes) = Loaded
        /\ \A g \in 1..Len(episodes) : episodes[g] # <<>>

C3_Witness ==
    /\ Grouped
    /\ NonContiguous
    /\ Len(episodes) = 3
    /\ ConcatGroups(episodes) = Loaded

(* C4: the groups are the maximal runs of equal video_id: adjacent records
   share a group exactly when their video_ids are equal *)
C4_MaximalRuns ==
    Grouped =>
        /\ PrefixLen(episodes, Len(episodes)) = Len(data)
        /\ \A j \in 1..(Len(data) - 1) :
              SameGroup(j, j + 1) <=> data[j].video_id = data[j + 1].video_id
        /\ \A g \in 1..(Len(episodes) - 1) :
              /\ episodes[g] # <<>> /\ episodes[g + 1] # <<>>
              /\ episodes[g][Len(episodes[g])].video_id # episodes[g + 1][1].video_id

C4_Witness ==
    /\ Grouped
    /\ Len(episodes) = 3
    /\ episodes[1][1].video_id = episodes[3][1].video_id
    /\ Len(episodes[1]) = 2

(* C6: a group count different from num_episodes is an AssertionError raised
   before any expanded string exists; equal counts proceed; an id in two
   separated runs is rejected when num_episodes counts the distinct ids *)
C6_GroupCountAssert ==
    Grouped =>
        /\ (Len(episodes) # num_episodes =>
               /\ pc = "failed"
               /\ err = "AssertionError"
               /\ expanded_contents = <<>>
               /\ flattened_content = <<>>)
        /\ (Len(episodes) = num_episodes => Returned)
        /\ (NonContiguous /\ num_episodes = Cardinality(DistinctIds) =>
               pc = "failed" /\ err = "AssertionError")

C6_Witness ==
    /\ pc = "failed"
    /\ err = "AssertionError"
    /\ NonContiguous
    /\ num_episodes = Cardinality(DistinctIds)
    /\ Len(episodes) = 3

C9_ZeroWindowIdentity ==
    (Returned /\ window_size = 0) =>
        ConcatGroups(expanded_contents) = ContentsOf(data)

C9_Witness ==
    /\ Returned
    /\ window_size = 0
    /\ Len(episodes) = 2
    /\ ConcatGroups(expanded_contents) = <<"a", "b", "c">>

(* C10: one inner list per group, as long as its group; flattened, the output
   has len(data) strings, the azimuth check passes, and the j-th string is the
   window around the j-th record *)
C10_OnePerRecord ==
    /\ Returned =>
          /\ Len(expanded_contents) = Len(episodes)
          /\ \A g \in 1..Len(episodes) :
                Len(expanded_contents[g]) = Len(episodes[g])
          /\ Len(ConcatGroups(expanded_contents)) = Len(data)
          /\ \A j \in 1..Len(data) :
                ConcatGroups(expanded_contents)[j] =
                    SingleSpaced(SubSeq(ContentsOf(data),
                                        max(RunStart(j), j - window_size),
                                        min(RunEnd(j), j + window_size)))
    /\ pc \in {"flattened", "checked", "joined", "done"} =>
          Len(flattened_content) = Len(data)
    /\ pc = "failed" => Len(episodes) # num_episodes

C10_Witness ==
    /\ pc = "checked"
    /\ Len(episodes) = 2
    /\ Len(data) = 4
    /\ window_size = 2
    /\ Len(flattened_content) = 4

(* C5: the merge returns the records in order, each unchanged but for the new
   field, which holds the expanded string of the same position *)
C5_PositionalMerge ==
    [][(pc = "checked" /\ pc' = "joined") =>
          /\ Len(data') = Len(data)
          /\ Len(data') = Len(flattened_content)
          /\ \A k \in 1..Len(data) :
                /\ DOMAIN data'[k] = DOMAIN data[k] \cup {new_key}
                /\ data'[k][new_key] = flattened_content[k]
                /\ data'[k].video_id = data[k].video_id
                /\ data'[k].content = data[k].content
          /\ [k \in 1..Len(data') |-> data'[k][new_key]] = flattened_content']_vars

C5_Witness ==
    /\ pc = "joined"
    /\ Len(data) = 3
    /\ [k \in 1..Len(data) |-> data[k].expanded_content] = <<"a", "a b", "a">>

(* C7: sequences of different lengths never reach the merge: the cell stops
   with an AssertionError and no record carries the new field *)
C7_MismatchIsFatal ==
    Len(flattened_content) # Len(data) =>
        /\ pc \in {"flattened", "failed"}
        /\ (pc = "failed" => err = "AssertionError")
        /\ \A k \in 1..Len(data) : new_key \notin DOMAIN data[k]

C7_Witness ==
    /\ pc = "failed"
    /\ err = "AssertionError"
    /\ Len(flattened_content) = Len(data) + 1
    /\ Len(data) = 2

====
